---- MODULE Spec2Model ----
(***************************************************************************)
(* Model of TaskExecutor (src/src/pc_agent/task_executor.py): planning    *)
(* with heuristic fallback, the sequential step loop, the retry loop      *)
(* around the dispatcher, the abort policy and the aggregation of the     *)
(* execution log.                                                          *)
(***************************************************************************)
EXTENDS Integers, Sequences, FiniteSets, TLC

VARIABLES
    pc,               \* position of the execute() call
    task,             \* execute(): task_description argument
    planner,          \* state of self.claude_client for this call
    plan,             \* the plan returned by _create_execution_plan
    task_steps,       \* _execute_plan: list of TaskStep objects
    idx,              \* _execute_plan: position of the for loop (1-based)
    attempt,          \* _execute_step_with_retries: loop variable
    success,          \* value returned by _execute_step_with_retries
    completed_steps,  \* _execute_plan: local counter
    failed_steps,     \* _execute_plan: local counter
    log,              \* _execute_plan: the local execution_log mapping
    result,           \* value returned by execute()
    current_task,     \* self.current_task
    execution_log,    \* self.execution_log (history list)
    results,          \* per step: results of the _execute_single_step calls
    sleeps,           \* per step: number of backoff sleeps taken
    consults,         \* per step: number of _should_abort_on_failure calls
    lastCollab,       \* outcome of the collaborator call of the last dispatch
    lastCall,         \* collaborator method the last dispatch reached first
    driver,           \* web_automator.driver is set (a browser session is active)
    returned,         \* value of the caller's last get_execution_history()
                      \* or cancel_current_task() call since the last execute()
    plannerOutcome,   \* what the planner side did in this call
    fallbackPlans,    \* per description: action sequences of the heuristic
                      \* plans recorded so far (recorded under SpecFallback)
    aborted           \* the abort policy has answered True in this call

vars == <<pc, task, planner, plan, task_steps, idx, attempt, success,
          completed_steps, failed_steps, log, result, current_task,
          execution_log, results, sleeps, consults, lastCollab, lastCall,
          driver, returned, plannerOutcome, fallbackPlans, aborted>>

-----------------------------------------------------------------------------
(* Bounds of the explored inputs *)

MaxSteps == 2

MaxLongSteps == 4

MaxRetries == 1

MaxDispatchSteps == 1

-----------------------------------------------------------------------------
(* Values *)

None == "<None>"

\* an 'action' value of a planner payload that is not a string (JSON null)
NullAction == "<null>"

\* an element of a planner payload's 'steps' list that is not a mapping
NonDict == [nondict |-> TRUE]

DefaultRetries == 2

DefaultTimeout == 30

IsDict(d) == "nondict" \notin DOMAIN d

\* dict.get(key, default)
Get(d, k, default) == IF k \in DOMAIN d THEN d[k] ELSE default

Max(a, b) == IF a >= b THEN a ELSE b

\* a lower() that leaves every character as it is
LowerCharIdentity(c) == c

\* str.lower() on the characters the task descriptions use
LowerChar(c) ==
    CASE c = "S" -> "s" [] c = "G" -> "g" [] c = "O" -> "o"
      [] c = "L" -> "l" [] c = "E" -> "e" [] OTHER -> c

LowerStr(s) == [i \in 1..Len(s) |-> LowerChar(s[i])]

\* the Python test  sub in s  on strings
Contains(sub, s) ==
    \E i \in 1..(Len(s) - Len(sub) + 1) : SubSeq(s, i, i + Len(sub) - 1) = sub

\* str.lower() on action names
LowerAction(a) ==
    CASE a = "Navigate" -> "navigate" [] a = "CLICK" -> "click"
      [] a = "Analyze" -> "analyze" [] OTHER -> a

KwSearch == <<"s", "e", "a", "r", "c", "h">>

KwGoogle == <<"g", "o", "o", "g", "l", "e">>

Descriptions ==
    { <<"S", "e", "a", "r", "c", "h", " ", "G", "O", "O", "G", "L", "E">>,
      <<"s", "e", "a", "r", "c", "h">>,
      <<"o", "p", "e", "n">> }

\* the description used where the plan does not depend on it
DispatchDescriptions == { <<"o", "p", "e", "n">> }

-----------------------------------------------------------------------------
(* TaskStep *)

\* a constructor that defaults a missing action to a known one
TaskStepInitDefaultWait(step_data) ==
    [ step_number   |-> Get(step_data, "step_number", 0),
      action        |-> Get(step_data, "action", "wait"),
      parameters    |-> Get(step_data, "parameters", <<>>),
      timeout       |-> Get(step_data, "timeout", DefaultTimeout),
      retries       |-> Get(step_data, "retries", DefaultRetries),
      status        |-> "pending",
      start_time    |-> None,
      end_time      |-> None,
      error_message |-> None,
      result        |-> None,
      attempts      |-> 0 ]

TaskStepInit(step_data) ==
    [ step_number   |-> Get(step_data, "step_number", 0),
      action        |-> Get(step_data, "action", ""),
      parameters    |-> Get(step_data, "parameters", <<>>),
      timeout       |-> Get(step_data, "timeout", DefaultTimeout),
      retries       |-> Get(step_data, "retries", DefaultRetries),
      status        |-> "pending",
      start_time    |-> None,
      end_time      |-> None,
      error_message |-> None,
      result        |-> None,
      attempts      |-> 0 ]

\* start() that counts the attempt twice
StepStartCountsTwice(s) ==
    [s EXCEPT !.status = "running", !.start_time = "set",
              !.attempts = s.attempts + 2]

\* start() that sets the counter instead of incrementing it
StepStartResetsAttempts(s) ==
    [s EXCEPT !.status = "running", !.start_time = "set", !.attempts = 1]

StepStart(s) ==
    [s EXCEPT !.status = "running", !.start_time = "set",
              !.attempts = s.attempts + 1]

StepComplete(s) ==
    [s EXCEPT !.status = "completed", !.end_time = "set", !.result = None]

StepFail(s, error) ==
    [s EXCEPT !.status = "failed", !.end_time = "set",
              !.error_message = error]

StepSkip(s, reason) ==
    [s EXCEPT !.status = "skipped", !.end_time = "set",
              !.error_message = reason]

StepToDict(s) ==
    [ step_number   |-> s.step_number,
      action        |-> s.action,
      parameters    |-> s.parameters,
      status        |-> s.status,
      start_time    |-> s.start_time,
      end_time      |-> s.end_time,
      attempts      |-> s.attempts,
      error_message |-> s.error_message,
      result        |-> s.result ]

-----------------------------------------------------------------------------
(* Plan creation *)

SearchGooglePlanSteps ==
    << [ step_number |-> 1, action |-> "navigate",
         parameters |-> [url |-> "https://www.google.com"] ],
       [ step_number |-> 2, action |-> "type",
         parameters |-> [selector |-> "input[name=q]", text |-> "search query"] ],
       [ step_number |-> 3, action |-> "click",
         parameters |-> [key |-> "enter"] ] >>

GenericPlanSteps(task_description) ==
    << [ step_number |-> 1, action |-> "analyze", parameters |-> <<>> ],
       [ step_number |-> 2, action |-> "decide",
         parameters |-> [task |-> task_description] ] >>

CreateBasicPlan(task_description) ==
    LET task_lower == LowerStr(task_description)
        steps == IF Contains(KwSearch, task_lower) /\ Contains(KwGoogle, task_lower)
                 THEN SearchGooglePlanSteps
                 ELSE GenericPlanSteps(task_description)
    IN  [ task               |-> task_description,
          steps              |-> steps,
          estimated_duration |-> "1-2 minutes",
          prerequisites      |-> <<>>,
          potential_issues   |-> <<"Screen layout may differ from expected">> ]

\* what the planner side does when asked for a plan: screen capture, vision
\* analysis or plan_task raise ("raise"), or plan_task returns a payload
PlannerAvailable(p) == p = "available"

PlannerRaise == [raised |-> "planner side raised"]

\* an except clause that returns an error payload instead of falling back
CreateExecutionPlanErrorOnRaise(task_description, p, outcome) ==
    IF ~PlannerAvailable(p) THEN CreateBasicPlan(task_description)
    ELSE IF "raised" \in DOMAIN outcome THEN [error |-> outcome.raised]
    ELSE outcome

\* an except clause that falls back without looking at the description
CreateExecutionPlanGenericOnRaise(task_description, p, outcome) ==
    IF ~PlannerAvailable(p) THEN CreateBasicPlan(task_description)
    ELSE IF "raised" \in DOMAIN outcome THEN CreateBasicPlan(<<>>)
    ELSE outcome

CreateExecutionPlan(task_description, p, outcome) ==
    IF ~PlannerAvailable(p) THEN CreateBasicPlan(task_description)
    ELSE IF "raised" \in DOMAIN outcome THEN CreateBasicPlan(task_description)
    ELSE outcome

-----------------------------------------------------------------------------
(* Planner payloads explored *)

PlannerStates == {"none", "unavailable", "available"}

\* ClaudeClient.plan_task: the API call failed or the reply was not JSON
ErrorPayload == [error |-> "Could not parse JSON response"]

ParamsFor(a) ==
    CASE a = "click"    -> [selector |-> "#submit"]
      [] a = "navigate" -> [url |-> "https://example.com"]
      [] OTHER          -> <<>>

ShortActions == {"click", "navigate", "wait", "foo", NullAction}

ShortRetries == (-2)..MaxRetries

LongActions == {"click", "navigate"}

PayloadStep(a, r) ==
    [action |-> a, parameters |-> ParamsFor(a), retries |-> r]

\* a step mapping with no field at all: every field is defaulted
EmptyStep == <<>>

ShortStepData ==
    {PayloadStep(a, r) : a \in ShortActions, r \in ShortRetries}
        \cup {EmptyStep, NonDict}

LongStepData == {PayloadStep(a, 0) : a \in LongActions}

SeqsUpTo(S, n) == UNION {[1..k -> S] : k \in 0..n}

\* the planner numbers the steps of its plan 1, 2, ...
NumberSteps(sd) ==
    [i \in 1..Len(sd) |->
        IF IsDict(sd[i]) /\ DOMAIN sd[i] # {}
        THEN [k \in DOMAIN sd[i] \cup {"step_number"} |->
                 IF k = "step_number" THEN i ELSE sd[i][k]]
        ELSE sd[i]]

PlannerPlans ==
    {[task |-> "planned", steps |-> NumberSteps(sd)] :
        sd \in SeqsUpTo(ShortStepData, MaxSteps)
                \cup SeqsUpTo(LongStepData, MaxLongSteps)}

\* a plan mapping without a 'steps' key
NoStepsPayload == [task |-> "planned"]

PlannerOutcomes ==
    {PlannerRaise, ErrorPayload, NoStepsPayload} \cup PlannerPlans

-----------------------------------------------------------------------------
(* Dispatcher.  c is what the collaborator call does: it returns "true" or *)
(* "false", or it raises ("raise").  A handler yields "true", "false" or  *)
(* "raise".                                                                *)

CollabOutcomes == {"true", "false", "raise"}

Has(params, k) == k \in DOMAIN params

\* x, y = params['coordinates'] raises unless the value unpacks into two
IsPair(v) == Len(v) = 2

\* a click handler that takes a 'key' parameter as a target of its own
ExecuteClickActionKeyTarget(params, c) ==
    IF Has(params, "coordinates")
    THEN (IF IsPair(params.coordinates) THEN c ELSE "raise")
    ELSE IF Has(params, "selector") THEN c
    ELSE IF Has(params, "text") THEN c
    ELSE IF Has(params, "template") THEN c
    ELSE IF Has(params, "key") THEN c
    ELSE "false"

ExecuteClickAction(params, c) ==
    IF Has(params, "coordinates")
    THEN (IF IsPair(params.coordinates) THEN c ELSE "raise")
    ELSE IF Has(params, "selector") THEN c
    ELSE IF Has(params, "text") THEN c
    ELSE IF Has(params, "template") THEN c
    ELSE "false"

ExecuteTypeAction(params, c) == c

ExecuteNavigateAction(params, c) ==
    IF Get(params, "url", "") # "" THEN c ELSE "false"

\* time.sleep raises ValueError on a negative duration
ExecuteWaitAction(params) ==
    IF Get(params, "duration", 1) < 0 THEN "raise" ELSE "true"

\* c = "true": analyze_image returned a result; "false": it returned None
ExecuteAnalyzeAction(params, c) ==
    IF c = "raise" THEN "false" ELSE c

ExecuteDecideAction(params, p) ==
    IF ~PlannerAvailable(p) THEN "true" ELSE "true"

ExecuteScrollAction(params, c) == c

ExecuteKeyAction(params, c) ==
    IF Get(params, "key", "") # "" THEN c ELSE "false"

\* a click handler that tests the selector before the coordinates
ClickTargetSelectorFirst(params) ==
    IF Has(params, "selector") THEN "web_automator.click_element"
    ELSE IF Has(params, "coordinates")
    THEN (IF IsPair(params.coordinates) THEN "computer_agent.click_at"
          ELSE "none")
    ELSE IF Has(params, "text") THEN "web_automator.click_element_by_text"
    ELSE IF Has(params, "template") THEN "computer_agent.click_element"
    ELSE "none"

\* the collaborator method the click handler calls
ClickTarget(params) ==
    IF Has(params, "coordinates")
    THEN (IF IsPair(params.coordinates) THEN "computer_agent.click_at"
          ELSE "none")
    ELSE IF Has(params, "selector") THEN "web_automator.click_element"
    ELSE IF Has(params, "text") THEN "web_automator.click_element_by_text"
    ELSE IF Has(params, "template") THEN "computer_agent.click_element"
    ELSE "none"

TypeTarget(params) ==
    IF Has(params, "selector") THEN "web_automator.type_in_element"
    ELSE "computer_agent.type_text"

\* a scroll handler that does not look at the driver
ScrollTargetDesktopOnly(d) == "computer_agent.scroll_page"

\* d: web_automator.driver is set
ScrollTarget(d) ==
    IF d THEN "web_automator.scroll_page" ELSE "computer_agent.scroll_page"

KeyTarget(params, d) ==
    IF Get(params, "key", "") # "" THEN "computer_agent.press_key" ELSE "none"

\* the collaborator method the handler of the step reaches first, "none"
\* when it reaches none
CollaboratorMethod(step, d) ==
    LET action == LowerAction(step.action)
        params == step.parameters
    IN  CASE action = NullAction -> "none"
          [] action = "click" -> ClickTarget(params)
          [] action = "type" -> TypeTarget(params)
          [] action = "navigate" ->
                IF Get(params, "url", "") # "" THEN "web_automator.navigate_to"
                ELSE "none"
          [] action = "analyze" -> "computer_agent.capture_screen"
          [] action = "scroll" -> ScrollTarget(d)
          [] action = "key" -> KeyTarget(params, d)
          [] OTHER -> "none"

\* the handler of the step calls a collaborator
CallsCollaborator(step) == CollaboratorMethod(step, FALSE) # "none"

\* navigate_to sets the driver up before it loads the page: it returns True
\* only with a driver, and a failed call may or may not have left one
DriverAfter(method, c, d) ==
    IF method = "web_automator.navigate_to"
    THEN (IF c = "true" THEN {TRUE} ELSE {d, TRUE})
    ELSE {d}

\* an if/elif chain whose else branch reports success
HandlerResultUnknownSucceeds(action, params, c, p) ==
    CASE action = "click"    -> ExecuteClickAction(params, c)
      [] action = "type"     -> ExecuteTypeAction(params, c)
      [] action = "navigate" -> ExecuteNavigateAction(params, c)
      [] action = "wait"     -> ExecuteWaitAction(params)
      [] action = "analyze"  -> ExecuteAnalyzeAction(params, c)
      [] action = "decide"   -> ExecuteDecideAction(params, p)
      [] action = "scroll"   -> ExecuteScrollAction(params, c)
      [] action = "key"      -> ExecuteKeyAction(params, c)
      [] OTHER               -> "true"

\* result of the handler selected by the if/elif chain
HandlerResult(action, params, c, p) ==
    CASE action = "click"    -> ExecuteClickAction(params, c)
      [] action = "type"     -> ExecuteTypeAction(params, c)
      [] action = "navigate" -> ExecuteNavigateAction(params, c)
      [] action = "wait"     -> ExecuteWaitAction(params)
      [] action = "analyze"  -> ExecuteAnalyzeAction(params, c)
      [] action = "decide"   -> ExecuteDecideAction(params, p)
      [] action = "scroll"   -> ExecuteScrollAction(params, c)
      [] action = "key"      -> ExecuteKeyAction(params, c)
      [] OTHER               -> "false"

\* an except clause that reports a raising handler as a success
CatchAsSuccess(r) == IF r = "raise" THEN "true" ELSE r

\* the try/except of _execute_single_step turns a raising handler into False
CatchInSingleStep(r) == IF r = "raise" THEN "false" ELSE r

\* step.action.lower() is evaluated before the try: it raises when the
\* action is not a string
ExecuteSingleStep(step, c, p) ==
    IF step.action = NullAction THEN "raise"
    ELSE CatchInSingleStep(
             HandlerResult(LowerAction(step.action), step.parameters, c, p))

AttributeErrorLower == "'NoneType' object has no attribute 'lower'"

AttributeErrorGet == "object has no attribute 'get'"

MaxRetriesExceeded == "Max retries exceeded"

StepExecutionError == "Step execution error: 'NoneType' object has no attribute 'lower'"

-----------------------------------------------------------------------------
(* Abort policy *)

\* a critical set that leaves out analyze
CriticalActionsNavigateOnly == {"navigate"}

CriticalActions == {"navigate", "analyze"}

\* a scan that skips the steps that are not failed instead of stopping
RECURSIVE ScanFailuresNoBreak(_, _, _)
ScanFailuresNoBreak(steps, i, recent_failures) ==
    IF i > Len(steps) THEN FALSE
    ELSE IF steps[i].status = "failed"
         THEN IF recent_failures + 1 >= 2 THEN TRUE
              ELSE ScanFailuresNoBreak(steps, i + 1, recent_failures + 1)
         ELSE ScanFailuresNoBreak(steps, i + 1, recent_failures)

\* a scan that asks for three failed steps at the head of the list
RECURSIVE ScanFailuresThree(_, _, _)
ScanFailuresThree(steps, i, recent_failures) ==
    IF i > Len(steps) THEN FALSE
    ELSE IF steps[i].status = "failed"
         THEN IF recent_failures + 1 >= 3 THEN TRUE
              ELSE ScanFailuresThree(steps, i + 1, recent_failures + 1)
         ELSE FALSE

\* the scan  for step in remaining_steps  from position i with the count so far
RECURSIVE ScanFailures(_, _, _)
ScanFailures(steps, i, recent_failures) ==
    IF i > Len(steps) THEN FALSE
    ELSE IF steps[i].status = "failed"
         THEN IF recent_failures + 1 >= 2 THEN TRUE
              ELSE ScanFailures(steps, i + 1, recent_failures + 1)
         ELSE FALSE

\* an abort policy without the test of the critical actions
ShouldAbortScanOnly(failed_step, remaining_steps) ==
    IF failed_step.action = NullAction THEN "raise"
    ELSE IF ScanFailures(remaining_steps, 1, 0) THEN "true"
    ELSE "false"

\* an abort policy without the scan of the failures
ShouldAbortCriticalOnly(failed_step, remaining_steps) ==
    IF failed_step.action = NullAction THEN "raise"
    ELSE IF LowerAction(failed_step.action) \in CriticalActions THEN "true"
    ELSE "false"

\* "true", "false", or "raise" when failed_step.action.lower() raises
ShouldAbortOnFailure(failed_step, remaining_steps) ==
    IF failed_step.action = NullAction THEN "raise"
    ELSE IF LowerAction(failed_step.action) \in CriticalActions THEN "true"
    ELSE IF ScanFailures(remaining_steps, 1, 0) THEN "true"
    ELSE "false"

-----------------------------------------------------------------------------
(* Aggregation *)

\* a status computation whose second test is always true
OverallStatusNeverFailed(completed, failed) ==
    IF failed = 0 THEN "completed"
    ELSE IF completed >= 0 THEN "partially_completed"
    ELSE "failed"

\* a status rule that asks for a completed step before it says completed
OverallStatusNeedsCompleted(completed, failed) ==
    IF failed = 0 /\ completed > 0 THEN "completed"
    ELSE IF completed > 0 THEN "partially_completed"
    ELSE "failed"

OverallStatus(completed, failed) ==
    IF failed = 0 THEN "completed"
    ELSE IF completed > 0 THEN "partially_completed"
    ELSE "failed"

-----------------------------------------------------------------------------
(* Retry loop *)

\* a retry loop that makes one attempt at least
RangeLimitAtLeastOne(retries) == Max(retries + 1, 1)

\* number of iterations of  for attempt in range(step.retries + 1)
RangeLimit(retries) == retries + 1

\* a loop body that gives up at the first failed attempt
RetryDecisionNoRetry(r, att, retries) ==
    IF r = "true" THEN "complete"
    ELSE IF r = "false" THEN "fail_max"
    ELSE "fail_error"

\* a loop body that accepts a success on the first attempt only
RetryDecisionFirstAttemptOnly(r, att, retries) ==
    IF r = "true" /\ att = 0 THEN "complete"
    ELSE IF att < retries THEN "retry"
    ELSE IF r = "false" THEN "fail_max"
    ELSE "fail_error"

\* a loop body that sleeps after the last allowed attempt as well
RetryDecisionSleepsAfterLast(r, att, retries) ==
    IF r = "true" THEN "complete"
    ELSE IF att <= retries THEN "retry"
    ELSE IF r = "false" THEN "fail_max"
    ELSE "fail_error"

\* a loop body whose except branch fails the step with the fixed message
RetryDecisionOneMessage(r, att, retries) ==
    IF r = "true" THEN "complete"
    ELSE IF att < retries THEN "retry"
    ELSE "fail_max"

\* a retry loop that stops one attempt early
RetryDecisionOneRetryLess(r, att, retries) ==
    IF r = "true" THEN "complete"
    ELSE IF att + 1 < retries THEN "retry"
    ELSE IF r = "false" THEN "fail_max"
    ELSE "fail_error"

\* what the loop body does with the result r of _execute_single_step
RetryDecision(r, att, retries) ==
    IF r = "true" THEN "complete"
    ELSE IF att < retries THEN "retry"
    ELSE IF r = "false" THEN "fail_max"
    ELSE "fail_error"

\* an update that keeps the value of a key that is already present
UpdateKeepsOld(d, e) ==
    [k \in DOMAIN d \cup DOMAIN e |-> IF k \in DOMAIN d THEN d[k] ELSE e[k]]

\* dict.update
Update(d, e) ==
    [k \in DOMAIN d \cup DOMAIN e |-> IF k \in DOMAIN e THEN e[k] ELSE d[k]]

-----------------------------------------------------------------------------
(* State machine of one execute() call *)

NoSteps == <<>>

\* the caller has called neither get_execution_history nor cancel_current_task
NoCall == [op |-> "none"]

Init ==
    /\ pc = "idle"
    /\ task = None
    /\ planner = "none"
    /\ plan = <<>>
    /\ task_steps = NoSteps
    /\ idx = 0
    /\ attempt = 0
    /\ success = FALSE
    /\ completed_steps = 0
    /\ failed_steps = 0
    /\ log = <<>>
    /\ result = <<>>
    /\ current_task = None
    /\ execution_log = <<>>
    /\ results = <<>>
    /\ sleeps = <<>>
    /\ consults = <<>>
    /\ lastCollab = "none"
    /\ lastCall = "none"
    /\ driver = FALSE
    /\ returned = NoCall
    /\ plannerOutcome = "none"
    /\ fallbackPlans = [d \in Descriptions |-> {}]
    /\ aborted = FALSE

\* execute() without its except clause: the exception reaches the caller
TopLevelErrorPropagates(msg, task_description) == [raised |-> msg]

\* the value execute() returns from its except clause
TopLevelError(msg, task_description) ==
    [status |-> "error", error |-> msg, task |-> task_description]

\* the value execute() returns when the plan carries an 'error' key
PlanFailure(pl) ==
    [status |-> "failed", error |-> "Failed to create execution plan",
     details |-> pl]

\* what the planner side did: it was not asked ("unused"), something on the
\* way raised ("raise"), or plan_task returned an error payload or a plan
OutcomeKind(p, outcome) ==
    IF ~PlannerAvailable(p) THEN "unused"
    ELSE IF "raised" \in DOMAIN outcome THEN "raise"
    ELSE IF "error" \in DOMAIN outcome THEN "error"
    ELSE "plan"

\* execute(): plan creation, the 'error' check, and the head of
\* _execute_plan up to the for loop
\* a log that rewrites the task of the plan it stores
NewExecutionLogRetitlesPlan(task_description, pl) ==
    [task |-> task_description,
     plan |-> [k \in DOMAIN pl |-> IF k = "task" THEN task_description ELSE pl[k]],
     start_time |-> "set", steps |-> <<>>, status |-> "running"]

\* _execute_plan: the execution_log mapping before the loop
NewExecutionLog(task_description, pl) ==
    [task |-> task_description, plan |-> pl,
     start_time |-> "set", steps |-> <<>>, status |-> "running"]

Execute(task_description, p, outcome) ==
    /\ pc = "idle"
    /\ task' = task_description
    /\ planner' = p
    /\ LET pl == CreateExecutionPlan(task_description, p, outcome)
           steps_data == Get(pl, "steps", <<>>)
       IN  /\ plan' = pl
           /\ IF "error" \in DOMAIN pl
              THEN /\ result' = PlanFailure(pl)
                   /\ pc' = "done"
                   /\ UNCHANGED <<task_steps, log, results, sleeps, consults>>
              ELSE IF \E i \in 1..Len(steps_data) : ~IsDict(steps_data[i])
              THEN /\ result' = TopLevelError(AttributeErrorGet, task_description)
                   /\ pc' = "done"
                   /\ UNCHANGED <<task_steps, log, results, sleeps, consults>>
              ELSE /\ task_steps' = [i \in 1..Len(steps_data) |->
                                        TaskStepInit(steps_data[i])]
                   /\ log' = NewExecutionLog(task_description, pl)
                   /\ results' = [i \in 1..Len(steps_data) |-> <<>>]
                   /\ sleeps' = [i \in 1..Len(steps_data) |-> 0]
                   /\ consults' = [i \in 1..Len(steps_data) |-> 0]
                   /\ pc' = "step"
                   /\ UNCHANGED result
    /\ plannerOutcome' = OutcomeKind(p, outcome)
    /\ idx' = 1
    /\ attempt' = 0
    /\ returned' = NoCall
    /\ UNCHANGED <<success, completed_steps, failed_steps, current_task,
                   execution_log, lastCollab, lastCall, driver, aborted>>

\* head of the retry loop: step.start(), or line 332 when the range is
\* exhausted without an attempt
BeginAttempt ==
    /\ pc = "step"
    /\ idx <= Len(task_steps)
    /\ IF attempt < RangeLimit(task_steps[idx].retries)
       THEN /\ task_steps' = [task_steps EXCEPT ![idx] = StepStart(@)]
            /\ pc' = "dispatch"
            /\ UNCHANGED success
       ELSE /\ success' = FALSE
            /\ pc' = "stepdone"
            /\ UNCHANGED task_steps
    /\ lastCollab' = "none"
    /\ lastCall' = "none"
    /\ UNCHANGED <<driver, returned, task, planner, plan, plannerOutcome, fallbackPlans, idx, attempt, completed_steps,
                   failed_steps, log, result, current_task, execution_log,
                   results, sleeps, consults, aborted>>

\* _execute_single_step and what the loop body does with its result
\* drv is the state of web_automator.driver the dispatch leaves behind
Dispatch(c, drv) ==
    /\ pc = "dispatch"
    /\ LET step == task_steps[idx]
           r == ExecuteSingleStep(step, c, planner)
           d == RetryDecision(r, attempt, step.retries)
           m == CollaboratorMethod(step, driver)
       IN  /\ results' = [results EXCEPT ![idx] = Append(@, r)]
           /\ lastCollab' = IF CallsCollaborator(step) THEN c ELSE "none"
           /\ lastCall' = m
           /\ drv \in DriverAfter(m, c, driver)
           /\ driver' = drv
           /\ CASE d = "complete" ->
                     /\ task_steps' = [task_steps EXCEPT ![idx] = StepComplete(@)]
                     /\ success' = TRUE
                     /\ pc' = "stepdone"
                [] d = "retry" ->
                     /\ pc' = "backoff"
                     /\ UNCHANGED <<task_steps, success>>
                [] d = "fail_max" ->
                     /\ task_steps' = [task_steps EXCEPT
                                          ![idx] = StepFail(@, MaxRetriesExceeded)]
                     /\ success' = FALSE
                     /\ pc' = "stepdone"
                [] d = "fail_error" ->
                     /\ task_steps' = [task_steps EXCEPT
                                          ![idx] = StepFail(@, StepExecutionError)]
                     /\ success' = FALSE
                     /\ pc' = "stepdone"
    /\ UNCHANGED <<task, planner, plan, plannerOutcome, fallbackPlans, idx, attempt, completed_steps,
                   failed_steps, log, result, current_task, execution_log,
                   sleeps, consults, returned, aborted>>

\* time.sleep(1); continue
Backoff ==
    /\ pc = "backoff"
    /\ sleeps' = [sleeps EXCEPT ![idx] = @ + 1]
    /\ attempt' = attempt + 1
    /\ pc' = "step"
    /\ UNCHANGED <<task, planner, plan, plannerOutcome, fallbackPlans, task_steps, idx, success,
                   completed_steps, failed_steps, log, result, current_task,
                   execution_log, results, consults, lastCollab, lastCall, driver, returned, aborted>>

\* a loop that runs the failed step again instead of moving on
AfterConsultRedo(a) == IF a = "true" THEN "finish" ELSE "step"

\* a loop that ignores the answer of the abort policy
AfterConsultNoBreak(a) == "delay"

\* where the for loop goes after the abort policy answered: break or go on
AfterConsult(a) == IF a = "true" THEN "finish" ELSE "delay"

\* a log that leaves out the steps that were never started
AppendSnapshotStartedOnly(l, step) ==
    IF step.status = "pending"
    THEN l
    ELSE [l EXCEPT !.steps = Append(@, StepToDict(step))]

\* execution_log['steps'].append(step.to_dict())
AppendSnapshot(l, step) == [l EXCEPT !.steps = Append(@, StepToDict(step))]

\* a loop that consults the abort policy after a successful step as well
RecordStepConsultsOnSuccess ==
    /\ pc = "stepdone"
    /\ LET step == task_steps[idx]
           logged == [log EXCEPT !.steps = Append(@, StepToDict(step))]
           a == ShouldAbortOnFailure(step, task_steps)
       IN  /\ consults' = [consults EXCEPT ![idx] = @ + 1]
           /\ IF success
              THEN /\ completed_steps' = completed_steps + 1
                   /\ UNCHANGED failed_steps
              ELSE /\ failed_steps' = failed_steps + 1
                   /\ UNCHANGED completed_steps
           /\ CASE a \in {"true", "false"} ->
                     /\ aborted' = (aborted \/ a = "true")
                     /\ log' = logged
                     /\ pc' = AfterConsult(a)
                     /\ UNCHANGED result
                [] a = "raise" ->
                     /\ log' = Update(logged,
                            [status |-> "error",
                             error |-> AttributeErrorLower,
                             end_time |-> "set"])
                     /\ result' = log'
                     /\ pc' = "done"
                     /\ UNCHANGED aborted
    /\ UNCHANGED <<task, planner, plan, plannerOutcome, fallbackPlans,
                   task_steps, idx, attempt, success, current_task,
                   execution_log, results, sleeps, lastCollab, lastCall,
                   driver, returned>>

\* _execute_plan lines 252-264: log the snapshot, count, consult the abort
\* policy on failure
RecordStep ==
    /\ pc = "stepdone"
    /\ LET step == task_steps[idx]
           logged == AppendSnapshot(log, step)
       IN  IF success
           THEN /\ completed_steps' = completed_steps + 1
                /\ log' = logged
                /\ pc' = "delay"
                /\ UNCHANGED <<failed_steps, consults, aborted, result>>
           ELSE /\ failed_steps' = failed_steps + 1
                /\ consults' = [consults EXCEPT ![idx] = @ + 1]
                /\ UNCHANGED completed_steps
                /\ LET a == ShouldAbortOnFailure(step, task_steps)
                   IN  CASE a \in {"true", "false"} ->
                              /\ aborted' = (aborted \/ a = "true")
                              /\ log' = logged
                              /\ pc' = AfterConsult(a)
                              /\ UNCHANGED result
                         [] a = "raise" ->
                              /\ log' = Update(logged,
                                     [status |-> "error",
                                      error |-> AttributeErrorLower,
                                      end_time |-> "set"])
                              /\ result' = log'
                              /\ pc' = "done"
                              /\ UNCHANGED aborted
    /\ UNCHANGED <<task, planner, plan, plannerOutcome, fallbackPlans, task_steps, idx, attempt, success,
                   current_task, execution_log, results, sleeps, lastCollab, lastCall, driver, returned>>

\* a pause between two steps that never ends
DelayNeverEnds ==
    /\ pc = "delay"
    /\ UNCHANGED vars

\* time.sleep(0.5) and the move of the for loop to the next step
Delay ==
    /\ pc = "delay"
    /\ idx' = idx + 1
    /\ attempt' = 0
    /\ pc' = "step"
    /\ UNCHANGED <<task, planner, plan, plannerOutcome, fallbackPlans, task_steps, success, completed_steps,
                   failed_steps, log, result, current_task, execution_log,
                   results, sleeps, consults, lastCollab, lastCall, driver, returned, aborted>>

\* an end of the run that appends the log to the executor's history
FinishRecordsHistory ==
    /\ \/ pc = "finish"
       \/ pc = "step" /\ idx > Len(task_steps)
    /\ log' = Update(log,
                 [end_time |-> "set", duration_seconds |-> "set",
                  status |-> OverallStatus(completed_steps, failed_steps),
                  completed_steps |-> completed_steps,
                  failed_steps |-> failed_steps,
                  total_steps |-> Len(task_steps)])
    /\ result' = log'
    /\ execution_log' = Append(execution_log, log')
    /\ pc' = "done"
    /\ UNCHANGED <<task, planner, plan, plannerOutcome, fallbackPlans, task_steps, idx, attempt, success,
                   completed_steps, failed_steps, current_task,
                   results, sleeps, consults, lastCollab, lastCall, driver, returned, aborted>>

\* _execute_plan lines 269-289: the loop has ended or was left by break
Finish ==
    /\ \/ pc = "finish"
       \/ pc = "step" /\ idx > Len(task_steps)
    /\ log' = Update(log,
                 [end_time |-> "set", duration_seconds |-> "set",
                  status |-> OverallStatus(completed_steps, failed_steps),
                  completed_steps |-> completed_steps,
                  failed_steps |-> failed_steps,
                  total_steps |-> Len(task_steps)])
    /\ result' = log'
    /\ pc' = "done"
    /\ UNCHANGED <<task, planner, plan, plannerOutcome, fallbackPlans, task_steps, idx, attempt, success,
                   completed_steps, failed_steps, current_task, execution_log,
                   results, sleeps, consults, lastCollab, lastCall, driver, returned, aborted>>

\* the caller takes the returned value; the locals of the call are gone and
\* the executor is ready for the next execute()
Return ==
    /\ pc = "done"
    /\ pc' = "idle"
    /\ task' = None
    /\ planner' = "none"
    /\ plan' = <<>>
    /\ task_steps' = NoSteps
    /\ idx' = 0
    /\ attempt' = 0
    /\ success' = FALSE
    /\ completed_steps' = 0
    /\ failed_steps' = 0
    /\ log' = <<>>
    /\ result' = <<>>
    /\ results' = <<>>
    /\ sleeps' = <<>>
    /\ consults' = <<>>
    /\ lastCollab' = "none"
    /\ lastCall' = "none"
    /\ plannerOutcome' = "none"
    /\ aborted' = FALSE
    /\ UNCHANGED <<current_task, execution_log, fallbackPlans, driver, returned>>

\* the descriptions explored with a planner outcome: all of them where the
\* description decides the plan, one where the planner's plan is run
DescriptionsFor(o) ==
    IF o \in PlannerPlans THEN DispatchDescriptions ELSE Descriptions

\* a call of execute() by the caller, with what the planner side will do
Call ==
    /\ pc = "idle"
    /\ \E p \in PlannerStates :
         \E o \in (IF PlannerAvailable(p) THEN PlannerOutcomes ELSE {PlannerRaise}) :
            \E d \in DescriptionsFor(o) :
                Execute(d, p, o)
    /\ UNCHANGED fallbackPlans

\* get_execution_history(): a copy of the history list
GetExecutionHistory ==
    /\ pc = "idle"
    /\ returned' = [op |-> "get_execution_history", value |-> execution_log]
    /\ UNCHANGED <<pc, task, planner, plan, task_steps, idx, attempt, success,
                   completed_steps, failed_steps, log, result, current_task,
                   execution_log, results, sleeps, consults, lastCollab,
                   lastCall, driver, plannerOutcome, fallbackPlans, aborted>>

\* cancel_current_task(): clears a set current_task and tells whether it did
CancelCurrentTask ==
    /\ pc = "idle"
    /\ IF current_task # None
       THEN /\ current_task' = None
            /\ returned' = [op |-> "cancel_current_task", value |-> TRUE]
       ELSE /\ returned' = [op |-> "cancel_current_task", value |-> FALSE]
            /\ UNCHANGED current_task
    /\ UNCHANGED <<pc, task, planner, plan, task_steps, idx, attempt, success,
                   completed_steps, failed_steps, log, result,
                   execution_log, results, sleeps, consults, lastCollab,
                   lastCall, driver, plannerOutcome, fallbackPlans, aborted>>

Next ==
    \/ Call
    \/ GetExecutionHistory
    \/ CancelCurrentTask
    \/ BeginAttempt
    \/ \E c \in CollabOutcomes, drv \in BOOLEAN : Dispatch(c, drv)
    \/ Backoff
    \/ RecordStep
    \/ Delay
    \/ Finish
    \/ Return

Spec == Init /\ [][Next]_vars

-----------------------------------------------------------------------------
(* Repeated calls whose plans come from the heuristic fallback, with the  *)
(* action sequence of every fallback plan recorded per description        *)

\* the planner side raises, or plan_task returns no usable plan
FallbackOutcomes == {PlannerRaise, ErrorPayload, NoStepsPayload}

\* the ordered actions of the steps of a plan
ActionsOf(pl) == [i \in 1..Len(pl.steps) |-> pl.steps[i].action]

RecordFallback(fp, d, pl) == [fp EXCEPT ![d] = @ \cup {ActionsOf(pl)}]

CallRecorded ==
    /\ pc = "idle"
    /\ \E d \in Descriptions, p \in PlannerStates :
         \E o \in (IF PlannerAvailable(p) THEN FallbackOutcomes ELSE {PlannerRaise}) :
            /\ Execute(d, p, o)
            /\ fallbackPlans' =
                  IF OutcomeKind(p, o) \in {"unused", "raise"}
                  THEN RecordFallback(fallbackPlans, d, plan')
                  ELSE fallbackPlans

NextFallback ==
    \/ CallRecorded
    \/ BeginAttempt
    \/ \E c \in CollabOutcomes, drv \in BOOLEAN : Dispatch(c, drv)
    \/ Backoff
    \/ RecordStep
    \/ Delay
    \/ Finish
    \/ Return

SpecFallback == Init /\ [][NextFallback]_vars

-----------------------------------------------------------------------------
(* Repeated calls whose plans exercise the handlers of the dispatcher on   *)
(* the parameters they inspect                                             *)

ClickParams ==
    { <<>>,
      [key |-> "enter"],
      [coordinates |-> <<10, 20>>],
      [coordinates |-> <<10>>],
      [selector |-> "#submit"],
      [text |-> "Submit"],
      [template |-> "button.png"],
      [coordinates |-> <<10, 20>>, selector |-> "#submit"],
      [coordinates |-> <<10>>, selector |-> "#submit"],
      [selector |-> "#submit", text |-> "Submit"],
      [text |-> "Submit", template |-> "button.png"],
      [selector |-> "#submit", text |-> "Submit", template |-> "button.png"],
      [coordinates |-> <<10, 20>>, selector |-> "#submit", text |-> "Submit",
       template |-> "button.png"] }

WaitParams ==
    { <<>>, [duration |-> 0], [duration |-> 2], [duration |-> -1] }

KeyParams == { <<>>, [key |-> ""], [key |-> "enter"] }

ScrollParams == { <<>>, [direction |-> "up", amount |-> 1] }

TypeParams == { [text |-> "hello"], [selector |-> "#q", text |-> "hello"] }

NavigateParams == { [url |-> "https://example.com"] }

DispatchParams(a) ==
    CASE a = "click"    -> ClickParams
      [] a = "wait"     -> WaitParams
      [] a = "key"      -> KeyParams
      [] a = "scroll"   -> ScrollParams
      [] a = "type"     -> TypeParams
      [] a = "navigate" -> NavigateParams

DispatchActions == {"click", "wait", "key", "scroll", "type", "navigate"}

DispatchStepData ==
    UNION { {[action |-> a, parameters |-> ps, retries |-> r] :
                ps \in DispatchParams(a), r \in 0..MaxRetries} :
            a \in DispatchActions }

DispatchPlans ==
    {[task |-> "planned", steps |-> NumberSteps(sd)] :
        sd \in SeqsUpTo(DispatchStepData, MaxDispatchSteps)}

CallDispatch ==
    /\ pc = "idle"
    /\ \E d \in DispatchDescriptions, o \in DispatchPlans :
          Execute(d, "available", o)
    /\ UNCHANGED fallbackPlans

NextDispatch ==
    \/ CallDispatch
    \/ BeginAttempt
    \/ \E c \in CollabOutcomes, drv \in BOOLEAN : Dispatch(c, drv)
    \/ Backoff
    \/ RecordStep
    \/ Delay
    \/ Finish
    \/ Return

SpecDispatch == Init /\ [][NextDispatch]_vars

-----------------------------------------------------------------------------
(* Runs to completion: plans of click and null-action steps with every
   retries value, under the fairness of a sequential program *)

MaxLiveSteps == 2

LiveActions == {"click", NullAction}

LiveStepData ==
    {PayloadStep(a, r) : a \in LiveActions, r \in (-2)..MaxRetries}

LivePlans ==
    {[task |-> "planned", steps |-> NumberSteps(sd)] :
        sd \in SeqsUpTo(LiveStepData, MaxLiveSteps)}

CallLive ==
    /\ pc = "idle"
    /\ \E d \in DispatchDescriptions, o \in LivePlans :
          Execute(d, "available", o)
    /\ UNCHANGED fallbackPlans

NextLive ==
    \/ CallLive
    \/ BeginAttempt
    \/ \E c \in CollabOutcomes, drv \in BOOLEAN : Dispatch(c, drv)
    \/ Backoff
    \/ RecordStep
    \/ Delay
    \/ Finish
    \/ Return

\* execute runs in one thread: once called, each statement of the loops is
\* executed in turn, every collaborator call returns or raises, and every
\* time.sleep ends; the caller need not take the result or call again
Fairness ==
    /\ WF_vars(BeginAttempt)
    /\ WF_vars(\E c \in CollabOutcomes, drv \in BOOLEAN : Dispatch(c, drv))
    /\ WF_vars(Backoff)
    /\ WF_vars(RecordStep)
    /\ WF_vars(Delay)
    /\ WF_vars(Finish)

SpecLive == Init /\ [][NextLive]_vars /\ Fairness

-----------------------------------------------------------------------------
(* Properties *)

Steps == DOMAIN task_steps

Terminal(s) == s.status \in {"completed", "failed", "skipped"}

IsLog(r) == "steps" \in DOMAIN r

LogStatuses == {"completed", "partially_completed", "failed", "error"}

\* C1: execute never raises to its caller: whatever the description, the
\* planner side, the plan and the collaborators do, the call ends by returning
\* a mapping that carries a status, and a planning failure, a failed step or
\* an escaped exception is reported inside that mapping.
C1_ExecuteNeverRaises ==
    pc = "done" =>
        /\ "raised" \notin DOMAIN result
        /\ "status" \in DOMAIN result
        /\ result.status \in LogStatuses
        /\ (\E i \in Steps : task_steps[i].status = "failed")
              => result.status # "completed"
        /\ plannerOutcome = "error"
              => result.status = "failed" /\ "error" \in DOMAIN result
        /\ result.status = "error" => "error" \in DOMAIN result

\* an exception escaped _execute_plan and execute returned the error mapping
C1_Witness ==
    /\ pc = "done"
    /\ result = TopLevelError(AttributeErrorGet, task)

\* C2: when the step loop ends without an escaping exception, the status of
\* the log is completed exactly when failed_steps = 0, partially_completed
\* exactly when completed_steps > 0 and failed_steps > 0, and failed exactly
\* when completed_steps = 0 and failed_steps > 0.
C2_StatusFromCounters ==
    (pc = "done" /\ "completed_steps" \in DOMAIN result) =>
        /\ result.status = "completed" <=> result.failed_steps = 0
        /\ result.status = "partially_completed"
              <=> (result.completed_steps > 0 /\ result.failed_steps > 0)
        /\ result.status = "failed"
              <=> (result.completed_steps = 0 /\ result.failed_steps > 0)

\* a run that ended with no completed step and a failed one
C2_Witness ==
    /\ pc = "done"
    /\ "completed_steps" \in DOMAIN result
    /\ result.completed_steps = 0
    /\ result.failed_steps > 0
    /\ result.status = "failed"

\* C3 as stated: in every reachable state each step's attempts counter is at
\* most the step's retries plus 1.
C3_AttemptsAtMostRetriesPlusOne ==
    \A i \in Steps : task_steps[i].attempts <= task_steps[i].retries + 1

\* C3 amended: in every reachable state each step's attempts counter is at
\* most the larger of retries + 1 and 0.
C3_AttemptsBounded ==
    \A i \in Steps :
        task_steps[i].attempts <= Max(task_steps[i].retries + 1, 0)

\* a step that used every attempt its bound allows after being retried
C3_Witness ==
    \E i \in Steps :
        /\ task_steps[i].retries >= 1
        /\ task_steps[i].status = "failed"
        /\ task_steps[i].attempts = task_steps[i].retries + 1

\* C4: once a navigate or analyze step has failed after exhausting its
\* retries, no step after it in the plan is ever started: every later step is
\* pending with no attempt and no dispatch.
C4_CriticalFailureStops ==
    \A i \in Steps :
        (/\ task_steps[i].status = "failed"
         /\ LowerAction(task_steps[i].action) \in {"navigate", "analyze"})
        => \A j \in Steps :
              j > i => /\ task_steps[j].status = "pending"
                       /\ task_steps[j].attempts = 0
                       /\ results[j] = <<>>

\* a run has returned in which a critical step failed before the end of the
\* plan after an earlier step had completed
C4_Witness ==
    /\ pc = "done"
    /\ \E i \in Steps :
          /\ 1 < i /\ i < Len(task_steps)
          /\ task_steps[i].status = "failed"
          /\ task_steps[i].action = "navigate"
          /\ task_steps[1].status = "completed"

\* C5 as stated: after two consecutively executed steps have both failed, at
\* any position of the plan, no further step is started.
C5_TwoConsecutiveFailuresAbort ==
    \A i \in Steps :
        (/\ i + 1 \in Steps
         /\ task_steps[i].status = "failed"
         /\ task_steps[i + 1].status = "failed")
        => \A j \in Steps : j > i + 1 => task_steps[j].status = "pending"

\* C6 as stated: when the planner is unavailable, raises or returns an error
\* payload, execute runs the heuristic plan and never returns the planning
\* failure as a failed result.
C6_PlanningFailureAbsorbed ==
    (pc # "idle" /\ plannerOutcome \in {"unused", "raise", "error"}) =>
        /\ plan = CreateBasicPlan(task)
        /\ pc = "done" => IsLog(result)

\* C6 amended: when the planner is unavailable or the planner side raises,
\* execute runs the heuristic plan and returns its log; when the planner
\* returns an error payload, execute runs no step and returns status failed
\* with the error 'Failed to create execution plan' and the payload as details.
C6_FallbackOrPlanFailure ==
    pc # "idle" =>
        /\ plannerOutcome \in {"unused", "raise"} =>
              /\ plan = CreateBasicPlan(task)
              /\ Len(task_steps) = Len(CreateBasicPlan(task).steps)
              /\ pc = "done" => /\ IsLog(result)
                                /\ result.plan = CreateBasicPlan(task)
                                /\ Len(result.steps) >= 1
        /\ plannerOutcome = "error" =>
              /\ pc = "done"
              /\ task_steps = NoSteps
              /\ result = [status |-> "failed",
                           error |-> "Failed to create execution plan",
                           details |-> plan]

\* the planner side raised and the heuristic plan was run to its end
C6_Witness ==
    /\ pc = "done"
    /\ plannerOutcome = "raise"
    /\ IsLog(result)
    /\ Len(result.steps) = Len(CreateBasicPlan(task).steps)

\* the step of the most recent dispatch
LastDispatched ==
    IF pc \in {"dispatch", "backoff", "stepdone", "delay"} THEN idx
    ELSE IF pc = "step" THEN (IF attempt > 0 THEN idx ELSE idx - 1)
    ELSE IF aborted THEN idx ELSE idx - 1

\* C7: an exception raised by a collaborator during a dispatch is caught at
\* the step boundary: the step is retried while attempts remain, with its
\* bound exhausted it is recorded as failed, the loop goes on to the next step
\* unless the abort policy stops it, and the run does not end with status
\* error.
C7_CollaboratorExceptionCaught ==
    lastCollab = "raise" =>
        LET d == LastDispatched
        IN  /\ d \in Steps
            /\ results[d][Len(results[d])] = "false"
            /\ (pc = "backoff" \/ (pc = "step" /\ attempt > 0)) =>
                  /\ attempt <= task_steps[d].retries
                  /\ task_steps[d].status = "running"
            /\ ~(pc = "backoff" \/ (pc = "step" /\ attempt > 0)) =>
                  /\ task_steps[d].status = "failed"
                  /\ task_steps[d].attempts = task_steps[d].retries + 1
                  /\ task_steps[d].error_message # None
            /\ pc = "finish" =>
                  ShouldAbortOnFailure(task_steps[d], task_steps) = "true"
            /\ pc = "delay" =>
                  ShouldAbortOnFailure(task_steps[d], task_steps) = "false"
            /\ pc = "done" => result.status \in LogStatuses \ {"error"}

\* a collaborator raised on the last attempt of a step that is not the last
\* one, the step is recorded as failed and the loop goes on
C7_Witness ==
    /\ lastCollab = "raise"
    /\ pc = "delay"
    /\ idx < Len(task_steps)
    /\ task_steps[idx].status = "failed"
    /\ task_steps[idx].attempts >= 2

\* C8: when the dispatch of every step of an N-step plan succeeds within the
\* step's retry bound, the returned log has status completed and
\* completed_steps = N.
C8_AllSucceedCompleted ==
    (/\ pc = "done"
     /\ IsLog(result)
     /\ \A i \in Steps :
           results[i] # <<>> /\ results[i][Len(results[i])] = "true")
    => /\ result.status = "completed"
       /\ result.completed_steps = Len(task_steps)
       /\ result.total_steps = Len(task_steps)

\* a plan of at least two steps ran to its end with every dispatch chain
\* ending in a success, one of them after a retry
C8_Witness ==
    /\ pc = "done"
    /\ IsLog(result)
    /\ Len(task_steps) >= 2
    /\ \A i \in Steps : task_steps[i].status = "completed"
    /\ \E i \in Steps : task_steps[i].attempts >= 2

\* C9: a step with retries >= 1 whose first dispatch did not succeed has been
\* dispatched at least a second time by the time it reaches a terminal status.
C9_RetriedAtLeastOnce ==
    \A i \in Steps :
        (/\ Terminal(task_steps[i])
         /\ task_steps[i].retries >= 1
         /\ results[i] # <<>>
         /\ results[i][1] # "true")
        => Len(results[i]) >= 2

\* a step failed its first dispatch, was dispatched again and completed
C9_Witness ==
    \E i \in Steps :
        /\ task_steps[i].status = "completed"
        /\ task_steps[i].retries >= 1
        /\ results[i] = <<"false", "true">>

\* C10: once the abort policy has decided to stop, a step that is pending
\* stays pending with attempts 0 in every later step of the call.
C10_PendingStaysPending ==
    [][(aborted /\ pc' # "idle") =>
          \A j \in Steps :
              task_steps[j].status = "pending" =>
                  /\ task_steps'[j].status = "pending"
                  /\ task_steps'[j].attempts = 0]_vars

\* the call has returned after an abort that left a step pending
C10_Witness ==
    /\ aborted
    /\ pc = "done"
    /\ \E j \in Steps : task_steps[j].status = "pending"
    /\ IsLog(result)

-----------------------------------------------------------------------------

\* the step has left the retry loop and its outcome is known to the for loop
Ended(i) ==
    \/ idx > i
    \/ idx = i /\ pc \in {"stepdone", "delay", "finish", "done"}

NonCritical(s) ==
    s.action # NullAction /\ LowerAction(s.action) \notin {"navigate", "analyze"}

CountStatus(st) == Cardinality({i \in Steps : task_steps[i].status = st})

\* C11: a non-critical step that fails after an earlier failed step and a
\* completed step in between does not abort the plan: the loop goes on, and
\* when the call returns the step after it has been executed.
C11_SeparatedFailuresDoNotAbort ==
    \A j \in Steps :
        (/\ task_steps[j].status = "failed"
         /\ NonCritical(task_steps[j])
         /\ \E i, k \in Steps :
               /\ i < k /\ k < j
               /\ task_steps[i].status = "failed"
               /\ task_steps[k].status = "completed")
        => /\ ~(aborted /\ idx = j)
           /\ idx = j => pc \in {"stepdone", "delay"}
           /\ (pc = "done" /\ j < Len(task_steps)) =>
                 \/ results[j + 1] # <<>>
                 \/ task_steps[j + 1].retries < 0

\* a run has returned in which a failed, a completed and a failed step were
\* followed by a step that was executed
C11_Witness ==
    /\ pc = "done"
    /\ Len(task_steps) >= 4
    /\ task_steps[1].status = "failed"
    /\ task_steps[2].status = "completed"
    /\ task_steps[3].status = "failed"
    /\ task_steps[3].action = "click"
    /\ task_steps[4].status = "completed"

\* C12 as stated: in the returned log completed_steps is the number of steps
\* that ended completed, failed_steps the number that ended failed, and
\* total_steps the number of steps of the plan.
C12_CountersMatchStatuses ==
    (pc = "done" /\ "completed_steps" \in DOMAIN result) =>
        /\ result.completed_steps = CountStatus("completed")
        /\ result.failed_steps = CountStatus("failed")
        /\ result.total_steps = Len(task_steps)

\* C13: when the first step of a plan is a navigate that fails all its
\* attempts, no later step is ever dispatched, and the call returns status
\* failed with that step as the only one in a terminal status.
C13_FirstNavigateFails ==
    (/\ Len(task_steps) >= 1
     /\ task_steps[1].action # NullAction
     /\ LowerAction(task_steps[1].action) = "navigate"
     /\ task_steps[1].status = "failed")
    => /\ task_steps[1].attempts = task_steps[1].retries + 1
       /\ \A j \in Steps :
             j > 1 => /\ task_steps[j].status = "pending"
                      /\ results[j] = <<>>
       /\ pc = "done" =>
             /\ IsLog(result)
             /\ result.status = "failed"
             /\ {i \in Steps : Terminal(task_steps[i])} = {1}

\* the three-step heuristic plan has returned after its navigate step failed
\* all three attempts
C13_Witness ==
    /\ pc = "done"
    /\ Len(task_steps) = 3
    /\ task_steps[1].action = "navigate"
    /\ task_steps[1].status = "failed"
    /\ task_steps[1].attempts = 3
    /\ result.status = "failed"

Vocabulary ==
    {"click", "type", "navigate", "wait", "analyze", "decide", "scroll", "key"}

\* the words of the messages a step can carry
Words(msg) ==
    CASE msg = MaxRetriesExceeded -> <<"Max", "retries", "exceeded">>
      [] msg = StepExecutionError ->
            <<"Step", "execution", "error:", "'NoneType'", "object", "has",
              "no", "attribute", "'lower'">>
      [] OTHER -> <<>>

\* the message names the action
Mentions(msg, action) == \E i \in DOMAIN Words(msg) : Words(msg)[i] = action

\* the action is a string that matches no branch of the if/elif chain
UnknownAction(s) ==
    s.action # NullAction /\ LowerAction(s.action) \notin Vocabulary

\* C14 as stated, for the steps with retries >= 0: a step whose action is a
\* string outside the vocabulary is attempted at most retries + 1 times and ends
\* failed with an error_message that identifies the unknown action.
C14_UnknownActionIdentified ==
    \A i \in Steps :
        (UnknownAction(task_steps[i]) /\ task_steps[i].retries >= 0
            /\ Ended(i)) =>
            /\ task_steps[i].status = "failed"
            /\ task_steps[i].attempts <= task_steps[i].retries + 1
            /\ Mentions(task_steps[i].error_message, task_steps[i].action)

\* C14 amended: a step whose action is a string outside the vocabulary gets
\* the result false at every dispatch and is dispatched at most
\* max(retries + 1, 0) times; with retries >= 0 it ends failed after
\* retries + 1 attempts with the message 'Max retries exceeded', which does not
\* name the action; with retries < 0 it ends pending without an attempt.
C14_UnknownActionFails ==
    \A i \in Steps :
        UnknownAction(task_steps[i]) =>
            /\ \A k \in DOMAIN results[i] : results[i][k] = "false"
            /\ Len(results[i]) <= Max(task_steps[i].retries + 1, 0)
            /\ (Ended(i) /\ task_steps[i].retries >= 0) =>
                  /\ task_steps[i].status = "failed"
                  /\ task_steps[i].attempts = task_steps[i].retries + 1
                  /\ task_steps[i].error_message = MaxRetriesExceeded
                  /\ ~Mentions(task_steps[i].error_message, task_steps[i].action)
            /\ (Ended(i) /\ task_steps[i].retries < 0) =>
                  /\ task_steps[i].status = "pending"
                  /\ task_steps[i].attempts = 0

\* a step with the action foo has failed after its retry
C14_Witness ==
    \E i \in Steps :
        /\ task_steps[i].action = "foo"
        /\ task_steps[i].retries = 1
        /\ Ended(i)
        /\ task_steps[i].status = "failed"
        /\ results[i] = <<"false", "false">>

\* C15: once a step is completed, failed or skipped, no later step of the call
\* changes any of its fields.
C15_TerminalIsFinal ==
    [][\A j \in Steps :
          (Terminal(task_steps[j]) /\ pc' # "idle") =>
              task_steps'[j] = task_steps[j]]_vars

\* a later step is running while an earlier step is completed and another
\* one failed
C15_Witness ==
    /\ pc = "dispatch"
    /\ idx = 3
    /\ task_steps[1].status = "completed"
    /\ task_steps[2].status = "failed"
    /\ task_steps[3].status = "running"

\* C16 as stated: the status of the returned log is a function of the numbers
\* of completed, failed and skipped steps, the one of the aggregation rule.
C16_StatusFromTerminalStatuses ==
    (pc = "done" /\ IsLog(result)) =>
        result.status = OverallStatus(CountStatus("completed"),
                                      CountStatus("failed"))

\* C17 as stated: whatever the plan holds and whatever the dispatches do, a
\* run does not end with status error.
C17_NeverStatusError ==
    pc = "done" => result.status # "error"

\* a description that holds 'search' and 'google' in mixed case
MixedCaseSearchGoogle ==
    <<"S", "e", "a", "r", "c", "h", " ", "G", "O", "O", "G", "L", "E">>

\* C18: with no planner configured, a description that holds both 'search'
\* and 'google' in any case yields the heuristic plan of exactly three steps,
\* navigate to google.com, type into the search box and click, numbered 1, 2, 3.
C18_SearchGooglePlan ==
    (pc # "idle" /\ plannerOutcome = "unused" /\ task = MixedCaseSearchGoogle) =>
        /\ Len(plan.steps) = 3
        /\ ActionsOf(plan) = <<"navigate", "type", "click">>
        /\ \A i \in 1..3 : plan.steps[i].step_number = i
        /\ plan.steps[1].parameters = [url |-> "https://www.google.com"]
        /\ "selector" \in DOMAIN plan.steps[2].parameters
        /\ Len(task_steps) = 3
        /\ \A i \in 1..3 : /\ task_steps[i].action = plan.steps[i].action
                           /\ task_steps[i].step_number = i

\* the mixed-case description was planned without a planner and the plan has
\* run to its third step
C18_Witness ==
    /\ pc = "dispatch"
    /\ planner = "none"
    /\ task = MixedCaseSearchGoogle
    /\ idx = 3
    /\ task_steps[3].action = "click"

LogKeys ==
    {"task", "plan", "steps", "status",
     "completed_steps", "failed_steps", "total_steps"}

\* C20 as stated: on every return path the returned value carries task, plan,
\* steps, the three counters and a status among completed,
\* partially_completed, failed and error.
C20_AlwaysCompleteLog ==
    pc = "done" =>
        /\ LogKeys \subseteq DOMAIN result
        /\ result.status \in LogStatuses

\* C20 amended: every returned value carries a status among completed,
\* partially_completed, failed and error, never running.  It carries task,
\* plan, steps and the three counters exactly when the step loop ended
\* normally or by an abort; after an exception inside _execute_plan's try it
\* carries task, plan, steps and error but no counter; after a planning
\* failure it carries only status, error and details; after a top-level error
\* only status, error and task.
C20_ReturnShapes ==
    pc = "done" =>
        /\ "status" \in DOMAIN result
        /\ result.status \in LogStatuses
        /\ IF log # <<>>
           THEN /\ result = log
                /\ IF result.status = "error"
                   THEN DOMAIN result = {"task", "plan", "start_time", "steps",
                                         "status", "error", "end_time"}
                   ELSE DOMAIN result = LogKeys \cup
                            {"start_time", "end_time", "duration_seconds"}
           ELSE IF plannerOutcome = "error"
                THEN /\ DOMAIN result = {"status", "error", "details"}
                     /\ result.status = "failed"
                ELSE /\ DOMAIN result = {"status", "error", "task"}
                     /\ result.status = "error"

\* the call has returned the log of a run whose abort policy raised
C20_Witness ==
    /\ pc = "done"
    /\ IsLog(result)
    /\ result.status = "error"
    /\ Len(result.steps) >= 1

-----------------------------------------------------------------------------

\* C21 as stated: at most one step is running, and a step is started only
\* after the step before it has reached a terminal status.
C21_StrictlySequential ==
    /\ Cardinality({i \in Steps : task_steps[i].status = "running"}) <= 1
    /\ \A i \in Steps :
          (i + 1 \in Steps /\ task_steps[i + 1].attempts > 0)
              => Terminal(task_steps[i])

\* start() is applied in this step
Starts == pc = "step" /\ pc' = "dispatch"

\* C22 as stated: every time start() is applied, on the first attempt and on
\* each retry, the step is pending just before, and the call adds exactly 1 to
\* attempts and records start_time.
C22_StartFromPending ==
    [][Starts =>
          /\ task_steps[idx].status = "pending"
          /\ task_steps'[idx].attempts = task_steps[idx].attempts + 1
          /\ task_steps'[idx].start_time # None]_vars

\* C22 amended: start() is applied to a pending step on the first attempt and
\* to a running step on each retry, never to a terminal one; the call leaves
\* the step running, adds exactly 1 to attempts, records start_time and
\* touches no other step.
C22_StartFromPendingOrRunning ==
    [][Starts =>
          /\ task_steps[idx].status =
                 (IF attempt = 0 THEN "pending" ELSE "running")
          /\ (attempt = 0) = (task_steps[idx].attempts = 0)
          /\ task_steps'[idx].status = "running"
          /\ task_steps'[idx].attempts = task_steps[idx].attempts + 1
          /\ task_steps'[idx].start_time # None
          /\ \A j \in Steps : j # idx => task_steps'[j] = task_steps[j]]_vars

\* start() has just been applied for a retry
C22_Witness ==
    /\ pc = "dispatch"
    /\ attempt = 1
    /\ task_steps[idx].attempts = 2
    /\ task_steps[idx].status = "running"

\* the result of the last dispatch of step i
LastResult(i) == results[i][Len(results[i])]

\* C23 as stated: a step whose last allowed attempt did not succeed, by a
\* false result or by an exception, is failed with the message 'Max retries
\* exceeded' and the retry loop returns false.
C23_MaxRetriesMessage ==
    \A i \in Steps :
        (Ended(i) /\ results[i] # <<>> /\ LastResult(i) # "true") =>
            /\ task_steps[i].status = "failed"
            /\ task_steps[i].error_message = MaxRetriesExceeded
            /\ (idx = i /\ pc = "stepdone") => ~success

\* C23 amended: a step with retries >= 0 whose last allowed attempt did not
\* succeed is failed and the retry loop returns false; the message is 'Max
\* retries exceeded' when the last dispatch returned false, which includes a
\* collaborator exception caught inside the dispatcher, and 'Step execution
\* error: ...' with the text of the exception when the dispatch itself raised.
\* A step with negative retries is never attempted: the loop returns false
\* without a call of fail.
C23_FailMessageByCause ==
    \A i \in Steps :
        Ended(i) =>
            /\ (results[i] # <<>> /\ LastResult(i) = "false") =>
                  /\ task_steps[i].status = "failed"
                  /\ task_steps[i].error_message = MaxRetriesExceeded
                  /\ Len(results[i]) = task_steps[i].retries + 1
            /\ (results[i] # <<>> /\ LastResult(i) = "raise") =>
                  /\ task_steps[i].status = "failed"
                  /\ task_steps[i].error_message = StepExecutionError
                  /\ Len(results[i]) = task_steps[i].retries + 1
            /\ task_steps[i].retries < 0 =>
                  /\ results[i] = <<>>
                  /\ task_steps[i].status = "pending"
                  /\ task_steps[i].error_message = None
            /\ (idx = i /\ pc = "stepdone") =>
                  (success <=> task_steps[i].status = "completed")
            /\ (idx = i /\ pc = "stepdone" /\ lastCollab = "raise") =>
                  task_steps[i].error_message = MaxRetriesExceeded

\* the retry loop has returned false for a step whose dispatch raised on
\* both attempts
C23_Witness ==
    /\ pc = "stepdone"
    /\ ~success
    /\ results[idx] = <<"raise", "raise">>
    /\ task_steps[idx].status = "failed"
    /\ task_steps[idx].error_message = StepExecutionError

\* the retry loop of step i is between a backoff sleep and the next start()
AfterBackoff(i) == idx = i /\ pc = "step" /\ attempt > 0

\* C24: between two consecutive attempts of a step exactly one backoff sleep
\* is taken, and none after a successful attempt or after the last failed one:
\* a step that has ended took one sleep less than it had attempts.
C24_OneBackoffBetweenAttempts ==
    \A i \in Steps :
        /\ sleeps[i] = (IF AfterBackoff(i) THEN task_steps[i].attempts
                        ELSE Max(task_steps[i].attempts - 1, 0))
        /\ AfterBackoff(i) => attempt <= task_steps[i].retries
        /\ Ended(i) => sleeps[i] = Max(Len(results[i]) - 1, 0)
        /\ \A k \in DOMAIN results[i] :
              results[i][k] = "true" => k = Len(results[i])

\* a step has failed both of its attempts, with one sleep in between
C24_Witness ==
    \E i \in Steps :
        /\ Ended(i)
        /\ task_steps[i].status = "failed"
        /\ Len(results[i]) = 2
        /\ sleeps[i] = 1

\* C25: the abort policy is consulted exactly once for each step that ends
\* failed, right after its retry loop has returned and before any later step
\* starts; it is not consulted after a successful step or between retries, and
\* once its answer has let the loop go on no abort is made at that step.
C25_ConsultedOncePerFailure ==
    \A i \in Steps :
        /\ consults[i] <= 1
        /\ task_steps[i].status \in {"completed", "running"} => consults[i] = 0
        /\ task_steps[i].status = "failed" =>
              consults[i] = (IF idx = i /\ pc = "stepdone" THEN 0 ELSE 1)
        /\ (idx = i /\ pc = "stepdone") =>
              \A j \in Steps : j > i => task_steps[j].attempts = 0
        /\ (consults[i] = 1 /\ idx = i) => pc \in {"delay", "finish", "done"}
        /\ (consults[i] = 1 /\ idx > i /\ i + 1 \in Steps) =>
              \/ task_steps[i + 1].attempts > 0
              \/ task_steps[i + 1].retries < 0
              \/ idx = i + 1 /\ pc = "step"
        /\ (aborted /\ idx = i) =>
              /\ consults[i] = 1
              /\ pc \in {"finish", "done"}
              /\ \A j \in Steps : j > i => task_steps[j].attempts = 0

\* a run has returned in which two failed steps were each consulted on once
\* and the completed step between them not at all
C25_Witness ==
    /\ pc = "done"
    /\ Len(task_steps) >= 3
    /\ task_steps[1].status = "failed" /\ consults[1] = 1
    /\ task_steps[2].status = "completed" /\ consults[2] = 0
    /\ task_steps[3].status = "failed" /\ consults[3] = 1

\* C26 as stated: the scan for two failures never makes the abort policy
\* answer true: every abort is made at a failed navigate or analyze step.
C26_ScanNeverAborts ==
    aborted =>
        LowerAction(task_steps[idx].action) \in {"navigate", "analyze"}

\* the first two steps of the plan have both failed
FirstTwoFailed ==
    /\ Len(task_steps) >= 2
    /\ task_steps[1].status = "failed"
    /\ task_steps[2].status = "failed"

\* C26 amended: the scan for two failures does make the abort policy answer
\* true in some executions: an abort is made at a failed navigate or analyze
\* step, or at a failed step when the first two steps of the plan have both
\* failed; a run of failures of other actions aborts the plan exactly when it
\* starts at the first step of the plan, and then at the second step.
C26_AbortCriticalOrFirstTwo ==
    /\ aborted =>
          \/ LowerAction(task_steps[idx].action) \in {"navigate", "analyze"}
          \/ FirstTwoFailed
    /\ \A j \in Steps :
          (/\ task_steps[j].status = "failed"
           /\ NonCritical(task_steps[j])
           /\ consults[j] = 1)
          => ((aborted /\ idx = j) <=> (j >= 2 /\ FirstTwoFailed))

\* the plan was aborted at its second step after two failed clicks
C26_Witness ==
    /\ aborted
    /\ idx = 2
    /\ Len(task_steps) >= 3
    /\ task_steps[1].action = "click" /\ task_steps[1].status = "failed"
    /\ task_steps[2].action = "click" /\ task_steps[2].status = "failed"

\* C27 as stated: a step whose action is empty or outside the vocabulary is
\* never handed to the dispatcher, and a step without timeout or retries gets
\* 30 and 2.
C27_OnlyVocabularyDispatched ==
    \A i \in Steps :
        /\ results[i] # <<>> =>
              /\ task_steps[i].action # NullAction
              /\ LowerAction(task_steps[i].action) \in Vocabulary
        /\ "timeout" \notin DOMAIN plan.steps[i] => task_steps[i].timeout = 30
        /\ "retries" \notin DOMAIN plan.steps[i] => task_steps[i].retries = 2

\* C27 amended: no step is validated against the vocabulary.  A step takes
\* the action of its plan entry as it is, missing fields are defaulted (action
\* '', parameters empty, timeout 30, retries 2, step_number 0), and every step
\* with retries >= 0 that the loop reaches is handed to the dispatcher, also
\* with an empty action or one outside the vocabulary.
C27_DefaultsWithoutValidation ==
    \A i \in Steps :
        LET data == plan.steps[i]
        IN  /\ "action" \in DOMAIN data => task_steps[i].action = data.action
            /\ "action" \notin DOMAIN data => task_steps[i].action = ""
            /\ "parameters" \notin DOMAIN data => task_steps[i].parameters = <<>>
            /\ "timeout" \notin DOMAIN data => task_steps[i].timeout = 30
            /\ "retries" \notin DOMAIN data => task_steps[i].retries = 2
            /\ "step_number" \notin DOMAIN data => task_steps[i].step_number = 0
            /\ (Ended(i) /\ task_steps[i].retries >= 0) =>
                  Len(results[i]) >= 1

\* a step without any field was handed to the dispatcher three times
C27_Witness ==
    \E i \in Steps :
        /\ plan.steps[i] = EmptyStep
        /\ task_steps[i].action = ""
        /\ task_steps[i].retries = 2
        /\ results[i] = <<"false", "false", "false">>

-----------------------------------------------------------------------------
(* The dispatcher's handlers (checked under SpecDispatch) *)

\* the step at idx has just been dispatched: lastCall and the last entry of
\* results[idx] are those of that dispatch
JustDispatched == pc \in {"backoff", "stepdone"}

Dispatched(action) ==
    JustDispatched /\ task_steps[idx].action = action

\* C28 as stated: a click step calls the method that matches the first
\* present of coordinates, selector, text, template, and only when none of the
\* four is present it fails without calling a collaborator.
C28_ClickFirstPresent ==
    Dispatched("click") =>
        LET params == task_steps[idx].parameters
        IN  /\ Has(params, "coordinates") =>
                  lastCall = "computer_agent.click_at"
            /\ (~Has(params, "coordinates") /\ Has(params, "selector")) =>
                  lastCall = "web_automator.click_element"
            /\ (\A k \in {"coordinates", "selector"} : ~Has(params, k))
                  /\ Has(params, "text") =>
                  lastCall = "web_automator.click_element_by_text"
            /\ (\A k \in {"coordinates", "selector", "text"} : ~Has(params, k))
                  /\ Has(params, "template") =>
                  lastCall = "computer_agent.click_element"
            /\ (\A k \in {"coordinates", "selector", "text", "template"} :
                    ~Has(params, k)) =>
                  /\ lastCall = "none"
                  /\ LastResult(idx) = "false"

\* C28 amended: a click step selects its target by the first present of
\* coordinates, selector, text, template and calls the one matching method,
\* click_at, click_element of the browser, click_element_by_text or
\* click_element of the desktop; coordinates that do not unpack into a pair
\* make the attempt fail without a collaborator call, and the later keys are
\* not tried; with none of the four present the attempt fails without a
\* collaborator call.  The attempt succeeds exactly when the called method
\* returns true.
C28_ClickFirstPresentPair ==
    Dispatched("click") =>
        LET params == task_steps[idx].parameters
            present == {k \in {"coordinates", "selector", "text", "template"} :
                           Has(params, k)}
        IN  /\ "coordinates" \in present =>
                  IF Len(params.coordinates) = 2
                  THEN lastCall = "computer_agent.click_at"
                  ELSE lastCall = "none" /\ LastResult(idx) = "false"
            /\ ("coordinates" \notin present /\ "selector" \in present) =>
                  lastCall = "web_automator.click_element"
            /\ (present \cap {"coordinates", "selector"} = {}
                    /\ "text" \in present) =>
                  lastCall = "web_automator.click_element_by_text"
            /\ present = {"template"} =>
                  lastCall = "computer_agent.click_element"
            /\ present = {} =>
                  lastCall = "none" /\ LastResult(idx) = "false"
            /\ lastCall = "none" => lastCollab = "none"
            /\ lastCall # "none" =>
                  (LastResult(idx) = "true" <=> lastCollab = "true")

\* a click step that carries all four targets was dispatched to click_at
C28_Witness ==
    /\ Dispatched("click")
    /\ DOMAIN task_steps[idx].parameters =
           {"coordinates", "selector", "text", "template"}
    /\ lastCall = "computer_agent.click_at"
    /\ lastCollab = "true"

\* C29 as stated: scroll and key steps go to browser automation when a
\* browser session is active and to desktop automation otherwise.
C29_ScrollKeyBySession ==
    /\ Dispatched("scroll") =>
          lastCall = (IF driver THEN "web_automator.scroll_page"
                      ELSE "computer_agent.scroll_page")
    /\ (Dispatched("key") /\ Get(task_steps[idx].parameters, "key", "") # "") =>
          IF driver
          THEN lastCall \notin {"none", "computer_agent.press_key"}
          ELSE lastCall = "computer_agent.press_key"

\* C29 amended: a scroll step is delegated to the browser's scroll_page when
\* a browser session is active and to the desktop's scroll_page otherwise; a
\* key step is delegated to the desktop's press_key whether or not a session
\* is active, and fails without a collaborator call when it names no key.
C29_ScrollBySessionKeyDesktop ==
    /\ Dispatched("scroll") =>
          /\ driver => lastCall = "web_automator.scroll_page"
          /\ ~driver => lastCall = "computer_agent.scroll_page"
          /\ (LastResult(idx) = "true" <=> lastCollab = "true")
    /\ Dispatched("key") =>
          IF Get(task_steps[idx].parameters, "key", "") # ""
          THEN /\ lastCall = "computer_agent.press_key"
               /\ (LastResult(idx) = "true" <=> lastCollab = "true")
          ELSE /\ lastCall = "none"
               /\ LastResult(idx) = "false"

\* with a browser session active a scroll step went to the browser, after an
\* earlier call had started the session
C29_Witness ==
    /\ driver
    /\ Dispatched("scroll")
    /\ lastCall = "web_automator.scroll_page"
    /\ lastCollab = "true"

\* C30 as stated: a wait step completes on its first attempt whatever its
\* duration is, absent, zero, positive or negative, and never ends failed.
C30_WaitAlwaysSucceeds ==
    \A i \in Steps :
        (task_steps[i].action = "wait" /\ Ended(i)) =>
            /\ task_steps[i].status = "completed"
            /\ task_steps[i].attempts = 1

\* the snapshot at position i of a steps list shows the step as it is now
SnapshotOf(snap, s) ==
    /\ snap.step_number = s.step_number
    /\ snap.action = s.action
    /\ snap.parameters = s.parameters
    /\ snap.status = s.status
    /\ snap.attempts = s.attempts
    /\ snap.error_message = s.error_message

C32_PlanImmutable ==
    [][ /\ (pc # "idle" /\ pc' # "idle") => plan' = plan
        /\ (pc # "idle" /\ IsLog(log)) =>
              /\ log.plan = plan
              /\ log.task = task
              /\ \A i \in Steps :
                    task_steps[i].parameters =
                        Get(plan.steps[i], "parameters", <<>>)
        /\ (pc = "done" /\ IsLog(result)) => result.plan = plan
        /\ (pc # "idle" /\ plannerOutcome \in {"unused", "raise"}) =>
              plan = CreateBasicPlan(task)
        /\ (pc # "idle" /\ plannerOutcome = "plan") =>
              /\ plan.task = "planned"
              /\ DOMAIN plan \subseteq {"task", "steps"}
      ]_vars

C32_Witness ==
    /\ pc = "done"
    /\ IsLog(result)
    /\ plannerOutcome = "plan"
    /\ result.plan = plan
    /\ result.plan.task = "planned"
    /\ Len(result.steps) = 2
    /\ result.steps[2].status = "failed"

\* the loop is about to consult the abort policy for step i
Consulting(i) == pc = "stepdone" /\ idx = i /\ ~success

SearchGoogleFallback ==
    /\ pc # "idle"
    /\ plannerOutcome \in {"unused", "raise"}
    /\ task = MixedCaseSearchGoogle

\* C34: a run of the heuristic 'search google' plan never ends with status
\* completed: its third step is a click whose parameters hold only 'key', so
\* the click handler reaches no collaborator and returns False on each of
\* the three attempts, the step ends failed, and the run ends
\* partially_completed or failed.
C34_SearchGoogleNeverCompleted ==
    SearchGoogleFallback =>
        /\ Len(task_steps) = 3
        /\ task_steps[3].action = "click"
        /\ DOMAIN task_steps[3].parameters = {"key"}
        /\ \A k \in 1..Len(results[3]) : results[3][k] = "false"
        /\ (idx = 3 /\ JustDispatched) =>
              (lastCall = "none" /\ lastCollab = "none")
        /\ task_steps[3].status # "completed"
        /\ Ended(3) =>
              /\ task_steps[3].status = "failed"
              /\ task_steps[3].attempts = DefaultRetries + 1
              /\ task_steps[3].error_message = MaxRetriesExceeded
        /\ pc = "done" => result.status \in {"partially_completed", "failed"}

\* navigate and type completed, the click failed three times
C34_Witness ==
    /\ SearchGoogleFallback
    /\ pc = "done"
    /\ result.status = "partially_completed"
    /\ result.completed_steps = 2
    /\ result.failed_steps = 1
    /\ results[3] = <<"false", "false", "false">>
    /\ task_steps[3].status = "failed"

\* the dispatcher call of step i for the attempt just started is under way
InDispatch(i) == idx = i /\ pc = "dispatch"

\* C35: for a step with retries >= 0: attempts is the number of dispatcher
\* invocations made for the step (the one under way included); a step that
\* ends failed has attempts = retries + 1 and no invocation succeeded; a step
\* that ends completed has attempts equal to the index of its first
\* successful invocation, which is its last one: the dispatcher is never
\* invoked for the step again after a success.
C35_AttemptsCountDispatches ==
    \A i \in Steps :
        task_steps[i].retries >= 0 =>
            /\ task_steps[i].attempts =
                   Len(results[i]) + (IF InDispatch(i) THEN 1 ELSE 0)
            /\ \A k \in 1..(Len(results[i]) - 1) : results[i][k] # "true"
            /\ task_steps[i].status = "failed" =>
                   /\ task_steps[i].attempts = task_steps[i].retries + 1
                   /\ Len(results[i]) = task_steps[i].retries + 1
                   /\ \A k \in 1..Len(results[i]) : results[i][k] # "true"
            /\ task_steps[i].status = "completed" =>
                   /\ Len(results[i]) = task_steps[i].attempts
                   /\ results[i][task_steps[i].attempts] = "true"
                   /\ ~InDispatch(i)
            /\ (Len(results[i]) > 0 /\ LastResult(i) = "true") =>
                   task_steps[i].status = "completed"

\* one step completed on its second attempt and another failed after using up
\* its attempts
C35_Witness ==
    /\ pc = "done"
    /\ Len(task_steps) = 2
    /\ task_steps[1].retries = 1
    /\ task_steps[1].status = "completed"
    /\ task_steps[1].attempts = 2
    /\ results[1] = <<"false", "true">>
    /\ task_steps[2].retries = 1
    /\ task_steps[2].status = "failed"
    /\ task_steps[2].attempts = 2

\* the loop has gone through step i and recorded it
Recorded(i) == Ended(i) /\ ~(idx = i /\ pc = "stepdone")

\* C36: a step with negative retries is never dispatched: it stays pending
\* with attempts 0 and no error_message, and yet the loop counts it in
\* failed_steps, logs its snapshot with status pending and consults the
\* abort policy for it.
C36_NegativeRetriesNeverDispatched ==
    /\ \A i \in Steps :
          task_steps[i].retries < 0 =>
              /\ results[i] = <<>>
              /\ sleeps[i] = 0
              /\ ~InDispatch(i)
              /\ task_steps[i].status = "pending"
              /\ task_steps[i].attempts = 0
              /\ task_steps[i].error_message = None
              /\ (idx = i /\ pc = "stepdone") => ~success
              /\ Recorded(i) =>
                    /\ consults[i] = 1
                    /\ log.steps[i].status = "pending"
                    /\ log.steps[i].attempts = 0
    /\ (pc # "idle" /\ IsLog(log)) =>
          failed_steps =
              Cardinality({i \in Steps :
                              Recorded(i) /\ task_steps[i].status # "completed"})

\* a click with retries -1 was gone through after a completed step: it is
\* pending in the returned log and counted as failed
C36_Witness ==
    /\ pc = "done"
    /\ IsLog(result)
    /\ Len(task_steps) = 2
    /\ task_steps[1].status = "completed"
    /\ task_steps[2].retries = -1
    /\ task_steps[2].status = "pending"
    /\ results[2] = <<>>
    /\ consults[2] = 1
    /\ result.status = "partially_completed"
    /\ result.steps[2].status = "pending"
    /\ result.failed_steps = 1

\* C37: a step whose action is not a string raises in the dispatcher before
\* its exception guard on every attempt, ends failed with the 'Step execution
\* error' message, and then makes the abort policy raise, so that the run
\* returns status 'error' without completed_steps, failed_steps and
\* total_steps.
C37_NullActionEndsError ==
    \A i \in Steps :
        task_steps[i].action = NullAction =>
            /\ \A k \in 1..Len(results[i]) : results[i][k] = "raise"
            /\ Ended(i) =>
                  /\ task_steps[i].status = "failed"
                  /\ task_steps[i].error_message = StepExecutionError
            /\ Recorded(i) =>
                  /\ pc = "done"
                  /\ result.status = "error"
                  /\ DOMAIN result \cap
                        {"completed_steps", "failed_steps", "total_steps"} = {}

EmptyPlan ==
    /\ pc # "idle"
    /\ "error" \notin DOMAIN plan
    /\ Get(plan, "steps", <<>>) = <<>>

\* C39: a plan with no steps, whether its 'steps' list is empty or the key
\* is absent, dispatches nothing and returns status completed with
\* completed_steps 0, failed_steps 0 and total_steps 0.
C39_EmptyPlanCompleted ==
    EmptyPlan =>
        /\ task_steps = <<>>
        /\ results = <<>>
        /\ pc \in {"step", "done"}
        /\ lastCall = "none" /\ lastCollab = "none"
        /\ pc = "done" =>
              /\ result.status = "completed"
              /\ result.completed_steps = 0
              /\ result.failed_steps = 0
              /\ result.total_steps = 0
              /\ result.steps = <<>>

\* the planner returned a plan whose 'steps' list is empty and the call has
\* returned its log
C39_Witness ==
    /\ pc = "done"
    /\ plannerOutcome = "plan"
    /\ "steps" \in DOMAIN plan
    /\ plan.steps = <<>>
    /\ result.status = "completed"
    /\ result.total_steps = 0

RECURSIVE SumTo(_, _)
SumTo(f, n) == IF n = 0 THEN 0 ELSE f[n] + SumTo(f, n - 1)

\* dispatcher invocations made so far in this call
Dispatches == SumTo([i \in Steps |-> Len(results[i])], Len(task_steps))

\* the sum over the steps of retries + 1
SumRetriesPlusOne ==
    SumTo([i \in Steps |-> task_steps[i].retries + 1], Len(task_steps))

\* the sum over the steps of the iterations of range(retries + 1)
SumRangeLengths ==
    SumTo([i \in Steps |-> Max(task_steps[i].retries + 1, 0)], Len(task_steps))

\* C40 as stated: when every collaborator call returns or raises, a call of
\* execute eventually returns, after at most the sum over the steps of
\* (retries + 1) dispatcher invocations.
C40_TerminatesWithinSum ==
    /\ [](pc # "idle" => Dispatches <= SumRetriesPlusOne)
    /\ (pc # "idle") ~> (pc = "done")

\* C40 amended: when every collaborator call returns or raises, a call of
\* execute eventually returns, after at most the sum over the steps of
\* max(retries + 1, 0) dispatcher invocations: a step with negative retries
\* takes no invocation and gives none back to the other steps.
C40_TerminatesWithinRangeSum ==
    /\ [](pc # "idle" => Dispatches <= SumRangeLengths)
    /\ (pc # "idle") ~> (pc = "done")

\* the run has returned after two invocations for a step with retries 1 and
\* none for a step with retries -2
C40_Witness ==
    /\ pc = "done"
    /\ Len(task_steps) = 2
    /\ task_steps[1].retries = 1
    /\ task_steps[2].retries = -2
    /\ results[1] = <<"false", "false">>
    /\ results[2] = <<>>
    /\ Dispatches = 2
    /\ SumRangeLengths = 2
    /\ SumRetriesPlusOne = 1

====
